---- MODULE Spec2Model ----
(***************************************************************************)
(* The template store of the healthcare CMS: the reducer of               *)
(* TemplateContext.tsx, the add/update/delete/get operations built on it, *)
(* the export/import functions of utils/exportImport, the TemplateList    *)
(* handlers that call them (delete, export, file import), the functions   *)
(* of FHIRUtils, and the Dashboard with the three template forms.         *)
(***************************************************************************)
EXTENDS Integers, Sequences, FiniteSets, TLC

VARIABLES
    state,      \* TemplateState of the reducer (TemplateContext.tsx:5-11)
    now,        \* the wall clock read by Date.now() / new Date(), in ms
    readers,    \* FileReaders started by handleFileChange, not yet loaded: the
                \* file's content, and (history) the store when it was selected
    last,       \* the last step: its operation, its inputs, the state before it
    nOps,       \* number of user operations performed so far
    dashboard,  \* viewMode, createType, editState, viewState of the Dashboard
    form,       \* the state of the mounted template form, if any
    templateList \* activeTab and searchQuery of the TemplateList

vars == <<state, now, readers, last, nOps, dashboard, form, templateList>>

----------------------------------------------------------------------------
(* Bounds of the model *)

MaxOps == 2         \* user operations in one behaviour
MaxTime == 1        \* the clock runs over 0..MaxTime
MaxReaders == 1     \* file reads in flight at once
MaxRefs == 3        \* length of the id lists a toggle is called on

----------------------------------------------------------------------------
(* Values *)

\* The time value of an Invalid Date (new Date(undefined), new Date("x")).
NaN == -1

Times == 0..MaxTime

\* JSON values of a date field in an import file.
Undefined == [kind |-> "undefined"]
JNull == [kind |-> "null"]
JIso(t) == [kind |-> "isostring", t |-> t]

\* Reading a property of an object: undefined when the key is absent.
Get(obj, f) == IF f \in DOMAIN obj THEN obj[f] ELSE Undefined

\* Object spread with overrides: {...obj, k1: v1, ...} for the record over.
Spread(obj, over) ==
    [f \in DOMAIN obj \cup DOMAIN over |->
        IF f \in DOMAIN over THEN over[f] ELSE obj[f]]

Range(s) == {s[i] : i \in 1..Len(s)}

\* The null a function returns in place of a result.
Null == [ok |-> FALSE]

Ids(templates) == {templates[i].id : i \in 1..Len(templates)}

----------------------------------------------------------------------------
(* The reducer *)

\* A plausible slip: the store starts in the loading state.
initialStateLoading ==
    [goalTemplates |-> <<>>,
     taskTemplates |-> <<>>,
     carePlanTemplates |-> <<>>,
     loading |-> TRUE,
     error |-> "null"]

initialState ==
    [goalTemplates |-> <<>>,
     taskTemplates |-> <<>>,
     carePlanTemplates |-> <<>>,
     loading |-> FALSE,
     error |-> "null"]

\* A plausible slip: the new template is put in front.
AddTemplatePrepend(templates, payload) == <<payload>> \o templates

\* [...state.xTemplates, action.payload]
AddTemplate(templates, payload) == Append(templates, payload)

\* A plausible slip: a template that is not found is added.
UpdateTemplateUpsert(templates, payload) ==
    IF payload.id \in {templates[i].id : i \in 1..Len(templates)}
    THEN [i \in 1..Len(templates) |->
            IF templates[i].id = payload.id THEN payload ELSE templates[i]]
    ELSE Append(templates, payload)

\* A plausible slip: the comparison is inverted.
UpdateTemplateInverted(templates, payload) ==
    [i \in 1..Len(templates) |->
        IF templates[i].id # payload.id THEN payload ELSE templates[i]]

\* state.xTemplates.map(t => t.id === action.payload.id ? action.payload : t)
UpdateTemplate(templates, payload) ==
    [i \in 1..Len(templates) |->
        IF templates[i].id = payload.id THEN payload ELSE templates[i]]

\* A plausible slip: the filter keeps the matching templates.
DeleteTemplateInverted(templates, id) ==
    LET keep(t) == t.id = id IN SelectSeq(templates, keep)

\* state.xTemplates.filter(t => t.id !== action.payload)
DeleteTemplate(templates, id) ==
    LET keep(t) == t.id # id IN SelectSeq(templates, keep)

\* A plausible slip: the loaded templates are merged into the old ones.
LoadTemplatesMerge(s, payload) ==
    [s EXCEPT !.goalTemplates = @ \o payload.goals,
              !.taskTemplates = @ \o payload.tasks,
              !.carePlanTemplates = @ \o payload.carePlans]

\* case 'LOAD_TEMPLATES'
LoadTemplates(s, payload) ==
    [s EXCEPT !.goalTemplates = payload.goals,
              !.taskTemplates = payload.tasks,
              !.carePlanTemplates = payload.carePlans]

StripRefs(carePlans, goalId, taskId) ==
    [i \in 1..Len(carePlans) |->
        LET notGoal(x) == x # goalId
            notTask(x) == x # taskId
        IN  [carePlans[i] EXCEPT
                !.referencedGoals = SelectSeq(@, notGoal),
                !.referencedTasks = SelectSeq(@, notTask)]]

\* A plausible slip: deleting a goal or task also removes it from care plans.
templateReducerCascade(s, action) ==
    CASE action.type = "SET_LOADING" -> [s EXCEPT !.loading = action.payload]
      [] action.type = "SET_ERROR" -> [s EXCEPT !.error = action.payload]
      [] action.type = "ADD_GOAL_TEMPLATE" ->
            [s EXCEPT !.goalTemplates = AddTemplate(@, action.payload)]
      [] action.type = "UPDATE_GOAL_TEMPLATE" ->
            [s EXCEPT !.goalTemplates = UpdateTemplate(@, action.payload)]
      [] action.type = "DELETE_GOAL_TEMPLATE" ->
            [s EXCEPT !.goalTemplates = DeleteTemplate(@, action.payload),
                      !.carePlanTemplates = StripRefs(@, action.payload, <<>>)]
      [] action.type = "ADD_TASK_TEMPLATE" ->
            [s EXCEPT !.taskTemplates = AddTemplate(@, action.payload)]
      [] action.type = "UPDATE_TASK_TEMPLATE" ->
            [s EXCEPT !.taskTemplates = UpdateTemplate(@, action.payload)]
      [] action.type = "DELETE_TASK_TEMPLATE" ->
            [s EXCEPT !.taskTemplates = DeleteTemplate(@, action.payload),
                      !.carePlanTemplates = StripRefs(@, <<>>, action.payload)]
      [] action.type = "ADD_CAREPLAN_TEMPLATE" ->
            [s EXCEPT !.carePlanTemplates = AddTemplate(@, action.payload)]
      [] action.type = "UPDATE_CAREPLAN_TEMPLATE" ->
            [s EXCEPT !.carePlanTemplates = UpdateTemplate(@, action.payload)]
      [] action.type = "DELETE_CAREPLAN_TEMPLATE" ->
            [s EXCEPT !.carePlanTemplates = DeleteTemplate(@, action.payload)]
      [] action.type = "LOAD_TEMPLATES" -> LoadTemplates(s, action.payload)
      [] OTHER -> s

templateReducer(s, action) ==
    CASE action.type = "SET_LOADING" -> [s EXCEPT !.loading = action.payload]
      [] action.type = "SET_ERROR" -> [s EXCEPT !.error = action.payload]
      [] action.type = "ADD_GOAL_TEMPLATE" ->
            [s EXCEPT !.goalTemplates = AddTemplate(@, action.payload)]
      [] action.type = "UPDATE_GOAL_TEMPLATE" ->
            [s EXCEPT !.goalTemplates = UpdateTemplate(@, action.payload)]
      [] action.type = "DELETE_GOAL_TEMPLATE" ->
            [s EXCEPT !.goalTemplates = DeleteTemplate(@, action.payload)]
      [] action.type = "ADD_TASK_TEMPLATE" ->
            [s EXCEPT !.taskTemplates = AddTemplate(@, action.payload)]
      [] action.type = "UPDATE_TASK_TEMPLATE" ->
            [s EXCEPT !.taskTemplates = UpdateTemplate(@, action.payload)]
      [] action.type = "DELETE_TASK_TEMPLATE" ->
            [s EXCEPT !.taskTemplates = DeleteTemplate(@, action.payload)]
      [] action.type = "ADD_CAREPLAN_TEMPLATE" ->
            [s EXCEPT !.carePlanTemplates = AddTemplate(@, action.payload)]
      [] action.type = "UPDATE_CAREPLAN_TEMPLATE" ->
            [s EXCEPT !.carePlanTemplates = UpdateTemplate(@, action.payload)]
      [] action.type = "DELETE_CAREPLAN_TEMPLATE" ->
            [s EXCEPT !.carePlanTemplates = DeleteTemplate(@, action.payload)]
      [] action.type = "LOAD_TEMPLATES" -> LoadTemplates(s, action.payload)
      [] OTHER -> s

----------------------------------------------------------------------------
(* The provider's operations (TemplateProvider) *)

\* The digits Math.random() contributes to an id.
RandomSuffixes == {<<0>>, <<1>>}

\* Date.now().toString(36) + Math.random().toString(36).substr(2): the digits
\* of the clock followed by the digits of the random number.
generateId(t, suffix) == <<t>> \o suffix

\* The values a later clock read can return after a read of t: the clock may
\* have advanced by a millisecond in between.
ClockAfter(t) == {u \in Times : t <= u /\ u <= t + 1}

\* { ...template, id: generateId(), createdAt: new Date(), updatedAt: new Date() }
NewTemplate(template, id, createdAt, updatedAt) ==
    Spread(template, [id |-> id, createdAt |-> createdAt, updatedAt |-> updatedAt])

\* A plausible slip: the payload is dispatched without the new stamp.
UpdatedTemplateStale(template, t) == template

\* { ...template, updatedAt: new Date() }
UpdatedTemplate(template, t) == Spread(template, [updatedAt |-> t])

NotFound == [found |-> FALSE]

\* state.xTemplates.find(template => template.id === id)
getTemplate(templates, id) ==
    IF id \in Ids(templates)
    THEN LET k == CHOOSE i \in 1..Len(templates) :
                    /\ templates[i].id = id
                    /\ \A j \in 1..(i - 1) : templates[j].id # id
         IN  [found |-> TRUE, value |-> templates[k]]
    ELSE NotFound

getGoalTemplate(id) == getTemplate(state.goalTemplates, id)

getTaskTemplate(id) == getTemplate(state.taskTemplates, id)

getCarePlanTemplate(id) == getTemplate(state.carePlanTemplates, id)

Collection(s, type) ==
    CASE type = "goal" -> s.goalTemplates
      [] type = "task" -> s.taskTemplates
      [] type = "careplan" -> s.carePlanTemplates

\* A plausible slip: the read sees the state the dispatch produces.
getAfterDispatch(type, id) == getTemplate(Collection(state', type), id)

\* getGoalTemplate, getTaskTemplate or getCarePlanTemplate called in an event
\* handler: the function closes over the state of the render that made it.
getInHandler(type, id) ==
    CASE type = "goal" -> getGoalTemplate(id)
      [] type = "task" -> getTaskTemplate(id)
      [] type = "careplan" -> getCarePlanTemplate(id)

ActionName(verb, type) ==
    CASE type = "goal" -> verb \o "_GOAL_TEMPLATE"
      [] type = "task" -> verb \o "_TASK_TEMPLATE"
      [] type = "careplan" -> verb \o "_CAREPLAN_TEMPLATE"

TemplateTypes == {"goal", "task", "careplan"}

----------------------------------------------------------------------------
(* FHIRUtils (utils/fhirUtils) *)

\* A property whose value is undefined reads like a property that is not
\* there, and JSON.stringify leaves it out: records carry no such key.

\* `${resourceType}/${id}`: the characters of the type, a slash, the
\* characters of the id.
Join(resourceType, id) == <<resourceType, "/">> \o id

\* A plausible slip: the reference is the id without the type in front.
createReferenceBare(resourceType, id, optional) ==
    Spread([reference |-> id, type |-> resourceType], optional)

\* createReference(resourceType, id, display?): optional holds the display
\* argument when one is given, and is empty when it is undefined.
createReference(resourceType, id, optional) ==
    Spread([reference |-> Join(resourceType, id), type |-> resourceType], optional)

\* !obj.f for a string property f: undefined and "" are falsy.
Missing(obj, f) == f \notin DOMAIN obj \/ obj[f] = ""

\* !obj.f || !obj.f.g for an object property f with a string property g
MissingIn(obj, f, g) == f \notin DOMAIN obj \/ Missing(obj[f], g)

\* if (cond) errors.push(message)
Push(cond, message) == IF cond THEN <<message>> ELSE <<>>

Validation(errors) == [isValid |-> Len(errors) = 0, errors |-> errors]

\* A plausible slip: the validator returns at the first violation.
validateGoalFirstOnly(goal) ==
    LET errors ==
            IF Missing(goal, "lifecycleStatus") THEN <<"Lifecycle status is required">>
            ELSE IF MissingIn(goal, "description", "text") THEN <<"Description is required">>
            ELSE Push(MissingIn(goal, "subject", "reference"), "Subject reference is required")
    IN  Validation(errors)

validateGoal(goal) ==
    Validation(Push(Missing(goal, "lifecycleStatus"), "Lifecycle status is required")
               \o Push(MissingIn(goal, "description", "text"), "Description is required")
               \o Push(MissingIn(goal, "subject", "reference"), "Subject reference is required"))

validateTask(task) ==
    Validation(Push(Missing(task, "status"), "Status is required")
               \o Push(Missing(task, "intent"), "Intent is required"))

validateCarePlan(carePlan) ==
    Validation(Push(Missing(carePlan, "status"), "Status is required")
               \o Push(Missing(carePlan, "intent"), "Intent is required")
               \o Push(MissingIn(carePlan, "subject", "reference"), "Subject reference is required"))

\* The outcome of a call that did not return: the exception left the function.
Raised == [ok |-> FALSE, raised |-> TRUE]

\* A plausible slip: JSON.parse is called outside the try block.
importFromJSONUnguarded(jsonString) ==
    IF jsonString.parse # "ok" THEN Raised
    ELSE IF jsonString.data = JNull THEN Null
    ELSE [ok |-> TRUE, value |-> jsonString.data]

\* try { return JSON.parse(jsonString) } catch { return null }: the result is
\* the parsed value, which is null for the text "null", or null.
importFromJSON(jsonString) ==
    IF jsonString.parse # "ok" \/ jsonString.data = JNull THEN Null
    ELSE [ok |-> TRUE, value |-> jsonString.data]

\* ref.reference === targetReference
RefersTo(ref, targetReference) ==
    "reference" \in DOMAIN ref /\ ref.reference = targetReference

\* for (const r of list) if (r.reference === targetReference) return true,
\* under if (obj.f)
AnyRefersTo(obj, f, targetReference) ==
    f \in DOMAIN obj /\ \E i \in 1..Len(obj[f]) : RefersTo(obj[f][i], targetReference)

\* A plausible slip: the goals of an activity's detail are not searched.
referencesResourceShallow(resource, targetType, targetId) ==
    LET targetReference == Join(targetType, targetId)
    IN  /\ resource.resourceType = "CarePlan"
        /\ \/ AnyRefersTo(resource, "goal", targetReference)
           \/ /\ "activity" \in DOMAIN resource
              /\ \E i \in 1..Len(resource.activity) :
                    /\ "reference" \in DOMAIN resource.activity[i]
                    /\ RefersTo(resource.activity[i].reference, targetReference)

referencesResource(resource, targetType, targetId) ==
    LET targetReference == Join(targetType, targetId)
    IN  /\ resource.resourceType = "CarePlan"
        /\ \/ AnyRefersTo(resource, "goal", targetReference)
           \/ /\ "activity" \in DOMAIN resource
              /\ \E i \in 1..Len(resource.activity) :
                    LET activity == resource.activity[i]
                    IN  \/ /\ "reference" \in DOMAIN activity
                           /\ RefersTo(activity.reference, targetReference)
                        \/ /\ "detail" \in DOMAIN activity
                           /\ AnyRefersTo(activity.detail, "goal", targetReference)

\* The patient every default record names.
ExamplePatient == [reference |-> "Patient/example", display |-> "Example Patient"]

\* generateIdentifier() with no argument; its random value plays no part.
Identifier ==
    [use |-> "usual", system |-> "http://healthcare-cms.local/identifiers", value |-> "uuid"]

createDefaultGoal ==
    [resourceType |-> "Goal", identifier |-> <<Identifier>>, lifecycleStatus |-> "draft",
     description |-> [text |-> ""], subject |-> ExamplePatient]

createDefaultTask ==
    [resourceType |-> "Task", identifier |-> <<Identifier>>, status |-> "draft",
     intent |-> "plan", for |-> ExamplePatient]

createDefaultCarePlan ==
    [resourceType |-> "CarePlan", identifier |-> <<Identifier>>, status |-> "draft",
     intent |-> "plan", subject |-> ExamplePatient]

----------------------------------------------------------------------------
(* Export and import (utils/exportImport) *)

\* Date.prototype.toJSON, as JSON.stringify applies it: the ISO string of a
\* valid date, null for an Invalid Date.
DateToJSON(d) == IF d = NaN THEN JNull ELSE JIso(d)

\* new Date(v) for a value v read from parsed JSON: the instant of an ISO
\* string, the epoch for null, an Invalid Date for undefined.
NewDate(v) ==
    CASE v.kind = "isostring" -> v.t
      [] v.kind = "null" -> 0
      [] OTHER -> NaN

JArray(items) == [kind |-> "array", items |-> items]

\* JSON.stringify of one template: its Date fields become their toJSON value.
StringifyTemplate(t) ==
    [f \in DOMAIN t |->
        IF f \in {"createdAt", "updatedAt"} THEN DateToJSON(t[f]) ELSE t[f]]

StringifyAll(templates) ==
    [i \in 1..Len(templates) |-> StringifyTemplate(templates[i])]

\* The text of a file is modelled by the value JSON.parse gives for it.
exportTemplates(goals, tasks, carePlans, t) ==
    [parse |-> "ok",
     data |-> [goals |-> JArray(StringifyAll(goals)),
               tasks |-> JArray(StringifyAll(tasks)),
               carePlans |-> JArray(StringifyAll(carePlans)),
               exportDate |-> JIso(t),
               version |-> "1.0"]]

\* !v for a value of the parsed payload: undefined, null, false, 0 and the
\* empty string are falsy; every other number and string, true, objects and
\* arrays are not.
Falsy(v) == v.kind \in {"undefined", "null", "false", "zero", "emptyString"}

\* { ...x, createdAt: new Date(x.createdAt), updatedAt: new Date(x.updatedAt) }
Revive(x) ==
    Spread(x, [createdAt |-> NewDate(Get(x, "createdAt")),
               updatedAt |-> NewDate(Get(x, "updatedAt"))])

ReviveAll(items) == [i \in 1..Len(items) |-> Revive(items[i])]

\* A plausible slip: a missing collection is read as an empty one.
importTemplatesLenient(jsonString) ==
    IF jsonString.parse # "ok" THEN Null
    ELSE LET data == jsonString.data
             items(k) == IF Falsy(Get(data, k)) THEN <<>> ELSE Get(data, k).items
         IN  [ok |-> TRUE,
              value |-> Spread(data, [goals |-> ReviveAll(items("goals")),
                                      tasks |-> ReviveAll(items("tasks")),
                                      carePlans |-> ReviveAll(items("carePlans"))])]

\* An element of a parsed array whose createdAt cannot be read.
HasNull(items) == \E i \in 1..Len(items) : items[i] = JNull

\* A plausible slip: only the check of the three keys is inside the try block.
importTemplatesUncaught(jsonString) ==
    IF jsonString.parse # "ok" THEN Raised
    ELSE IF jsonString.data = JNull THEN Raised
    ELSE LET data == jsonString.data
             goals == Get(data, "goals")
             tasks == Get(data, "tasks")
             carePlans == Get(data, "carePlans")
         IN  IF Falsy(goals) \/ Falsy(tasks) \/ Falsy(carePlans)
             THEN Null
             ELSE IF \E v \in {goals, tasks, carePlans} : v.kind # "array"
             THEN Raised
             ELSE IF \E v \in {goals, tasks, carePlans} : HasNull(v.items)
             THEN Raised
             ELSE [ok |-> TRUE,
                   value |-> Spread(data, [goals |-> ReviveAll(goals.items),
                                           tasks |-> ReviveAll(tasks.items),
                                           carePlans |-> ReviveAll(carePlans.items)])]

\* A plausible slip: a file with a goal that validateGoal rejects is refused.
importTemplatesValidating(jsonString) ==
    IF jsonString.parse # "ok" THEN Null
    ELSE IF jsonString.data = JNull THEN Null
    ELSE LET data == jsonString.data
             goals == Get(data, "goals")
             tasks == Get(data, "tasks")
             carePlans == Get(data, "carePlans")
         IN  IF Falsy(goals) \/ Falsy(tasks) \/ Falsy(carePlans)
             THEN Null
             ELSE IF \E v \in {goals, tasks, carePlans} : v.kind # "array"
             THEN Null
             ELSE IF \E v \in {goals, tasks, carePlans} : HasNull(v.items)
             THEN Null
             ELSE IF \E i \in 1..Len(goals.items) :
                        ~validateGoal(goals.items[i].fhirGoal).isValid
             THEN Null
             ELSE [ok |-> TRUE,
                   value |-> Spread(data, [goals |-> ReviveAll(goals.items),
                                           tasks |-> ReviveAll(tasks.items),
                                           carePlans |-> ReviveAll(carePlans.items)])]

\* Every exception of the try block ends in the catch, which returns null.
importTemplates(jsonString) ==
    IF jsonString.parse # "ok" THEN Null      \* JSON.parse throws
    ELSE IF jsonString.data = JNull THEN Null \* data.goals of null throws
    ELSE LET data == jsonString.data
             goals == Get(data, "goals")
             tasks == Get(data, "tasks")
             carePlans == Get(data, "carePlans")
         IN  IF Falsy(goals) \/ Falsy(tasks) \/ Falsy(carePlans)
             THEN Null                        \* 'Invalid export format'
             ELSE IF \E v \in {goals, tasks, carePlans} : v.kind # "array"
             THEN Null                        \* .map is not a function
             ELSE IF \E v \in {goals, tasks, carePlans} : HasNull(v.items)
             THEN Null                        \* goal.createdAt of null throws
             ELSE [ok |-> TRUE,
                   value |-> Spread(data, [goals |-> ReviveAll(goals.items),
                                           tasks |-> ReviveAll(tasks.items),
                                           carePlans |-> ReviveAll(carePlans.items)])]

----------------------------------------------------------------------------
(* The forms (GoalTemplateForm, TaskTemplateForm, CarePlanTemplateForm) *)

\* The optional template prop of a form.
NoTemplate == [given |-> FALSE]

Given(template) == [given |-> TRUE, value |-> template]

\* No form is mounted.
NoForm == [type |-> "none"]

\* The key of the record in a template and in a form's state.
FhirKey(type) ==
    CASE type = "goal" -> "fhirGoal"
      [] type = "task" -> "fhirTask"
      [] type = "careplan" -> "fhirCarePlan"

createDefault(type) ==
    CASE type = "goal" -> createDefaultGoal
      [] type = "task" -> createDefaultTask
      [] type = "careplan" -> createDefaultCarePlan

Without(obj, keys) == [f \in DOMAIN obj \ keys |-> obj[f]]

\* record.id || id
RecordIdOr(record, id) ==
    IF "id" \in DOMAIN record /\ record.id # <<>> THEN record.id ELSE id

\* The display argument template?.name
NameOf(found) ==
    IF found.found /\ "name" \in DOMAIN found.value
    THEN [display |-> found.value.name]
    ELSE <<>>

\* A plausible slip: the reference is always made of the template's id.
goalReferencesTemplateId(referencedGoals, goalTemplates) ==
    [k \in 1..Len(referencedGoals) |->
        LET goalId == referencedGoals[k]
            goalTemplate == getTemplate(goalTemplates, goalId)
        IN  createReference("Goal", goalId, NameOf(goalTemplate))]

\* referencedGoals.map(goalId => createReference('Goal',
\*     goalTemplate?.fhirGoal.id || goalId, goalTemplate?.name))
goalReferences(referencedGoals, goalTemplates) ==
    [k \in 1..Len(referencedGoals) |->
        LET goalId == referencedGoals[k]
            goalTemplate == getTemplate(goalTemplates, goalId)
        IN  createReference("Goal",
                IF goalTemplate.found
                THEN RecordIdOr(goalTemplate.value.fhirGoal, goalId)
                ELSE goalId,
                NameOf(goalTemplate))]

\* referencedTasks.map(taskId => ({ reference: createReference('Task', ...) }))
taskActivities(referencedTasks, taskTemplates) ==
    [k \in 1..Len(referencedTasks) |->
        LET taskId == referencedTasks[k]
            taskTemplate == getTemplate(taskTemplates, taskId)
        IN  [reference |->
                createReference("Task",
                    IF taskTemplate.found
                    THEN RecordIdOr(taskTemplate.value.fhirTask, taskId)
                    ELSE taskId,
                    NameOf(taskTemplate))]]

\* f: list, left out when the list is empty
NonEmpty(f, list) == IF Len(list) > 0 THEN f :> list ELSE <<>>

\* A plausible slip: an empty list is stored as an empty list.
updateFhirCarePlanKeepEmpty(prev, goals, activities) ==
    Spread(prev, [goal |-> goals, activity |-> activities])

\* setFhirCarePlan(prev => ({ ...prev,
\*     goal: goalReferences.length > 0 ? goalReferences : undefined,
\*     activity: taskActivities.length > 0 ? taskActivities : undefined }))
updateFhirCarePlan(prev, goals, activities) ==
    Spread(Spread(Without(prev, {"goal", "activity"}), NonEmpty("goal", goals)),
           NonEmpty("activity", activities))

\* The projection effect of the care plan form, run against the store s.
Projected(draft, s) ==
    [draft EXCEPT !.fhirCarePlan =
        updateFhirCarePlan(@, goalReferences(draft.referencedGoals, s.goalTemplates),
                              taskActivities(draft.referencedTasks, s.taskTemplates))]

\* The state of a form after it is mounted: the useState initialisers, the
\* effect that copies the template and, in the care plan form, the projection.
MountForm(type, template, s) ==
    LET base == [type |-> type,
                 template |-> template,
                 name |-> IF template.given THEN template.value.name ELSE "",
                 description |-> IF template.given THEN template.value.description ELSE "",
                 errors |-> <<>>]
        fhir == IF template.given THEN template.value[FhirKey(type)] ELSE createDefault(type)
    IN  IF type = "careplan"
        THEN Projected(Spread(base,
                 [fhirCarePlan |-> fhir,
                  referencedGoals |->
                      IF template.given THEN template.value.referencedGoals ELSE <<>>,
                  referencedTasks |->
                      IF template.given THEN template.value.referencedTasks ELSE <<>>]), s)
        ELSE Spread(base, FhirKey(type) :> fhir)

\* A plausible slip: the id is appended without looking for it.
ToggleAppends(prev, id) == Append(prev, id)

\* prev.includes(id) ? prev.filter(x => x !== id) : [...prev, id]
Toggle(prev, id) ==
    LET other(x) == x # id
    IN  IF id \in Range(prev) THEN SelectSeq(prev, other) ELSE Append(prev, id)

\* The strings that trim() reduces; every other string of the model stays.
Trim(str) ==
    CASE str = " " -> ""
      [] str = "N " -> "N"
      [] OTHER -> str

\* errors.join(', ')
JoinErrors(errors) ==
    [i \in 1..(2 * Len(errors) - 1) |->
        IF i % 2 = 1 THEN errors[(i + 1) \div 2] ELSE ", "]

validateRecord(type, record) ==
    CASE type = "goal" -> validateGoal(record)
      [] type = "task" -> validateTask(record)
      [] type = "careplan" -> validateCarePlan(record)

\* A plausible slip: the record is not validated.
validateNamesOnly(draft) ==
    Spread(IF Trim(draft.name) = "" THEN [name |-> "Template name is required"] ELSE <<>>,
           IF Trim(draft.description) = ""
           THEN [description |-> "Template description is required"] ELSE <<>>)

\* validate() of a form: the errors it finds, by key.
validate(draft) ==
    LET fhirValidation == validateRecord(draft.type, draft[FhirKey(draft.type)])
    IN  Spread(Spread(IF Trim(draft.name) = ""
                      THEN [name |-> "Template name is required"] ELSE <<>>,
                      IF Trim(draft.description) = ""
                      THEN [description |-> "Template description is required"] ELSE <<>>),
               IF ~fhirValidation.isValid
               THEN [fhir |-> JoinErrors(fhirValidation.errors)] ELSE <<>>)

\* The object handleSubmit passes to onSave.
SaveData(draft) ==
    IF draft.type = "careplan"
    THEN [name |-> draft.name, description |-> draft.description,
          fhirCarePlan |-> draft.fhirCarePlan,
          referencedGoals |-> draft.referencedGoals,
          referencedTasks |-> draft.referencedTasks]
    ELSE Spread([name |-> draft.name, description |-> draft.description],
                FhirKey(draft.type) :> draft[FhirKey(draft.type)])

----------------------------------------------------------------------------
(* Inputs *)

\* Data passed to addGoalTemplate and updateGoalTemplate; the store takes
\* any record, so the second carries one with an empty lifecycleStatus.
GoalData ==
    {[name |-> "A", description |-> "a",
      fhirGoal |-> [resourceType |-> "Goal", lifecycleStatus |-> "draft"]],
     [name |-> "B", description |-> "b",
      fhirGoal |-> [resourceType |-> "Goal", lifecycleStatus |-> ""]]}

TaskData ==
    {[name |-> "T", description |-> "t",
      fhirTask |-> [resourceType |-> "Task", status |-> "draft", intent |-> "plan"]]}

\* The care plan form offers the templates now in the store for reference.
RefChoices(templates) == {<<>>} \cup {<<id>> : id \in Ids(templates)}

CarePlanData ==
    {[name |-> "P", description |-> "p",
      fhirCarePlan |-> [resourceType |-> "CarePlan", status |-> "draft", intent |-> "plan"],
      referencedGoals |-> rg, referencedTasks |-> rt] :
        rg \in RefChoices(state.goalTemplates),
        rt \in RefChoices(state.taskTemplates)}

FormData(type) ==
    CASE type = "goal" -> GoalData
      [] type = "task" -> TaskData
      [] type = "careplan" -> CarePlanData

\* An id that no template of the store has.
NoSuchId == <<9, 9>>

\* Templates passed to updateX: form data laid over a template of the
\* collection, or over one that is not in it, with that template's createdAt
\* or with another.
UpdatePayloads(type) ==
    LET phantom == [id |-> NoSuchId, createdAt |-> 0, updatedAt |-> 0]
        bases == Range(Collection(state, type)) \cup {phantom}
    IN  UNION {{Spread(Spread(base, data), [createdAt |-> c]) :
                    data \in FormData(type), c \in {base.createdAt, 0}} :
               base \in bases}

\* Templates as they stand in an import file.
JsonGoal(id, name, dates) ==
    Spread([id |-> id, name |-> name, description |-> "i",
            fhirGoal |-> [resourceType |-> "Goal", lifecycleStatus |-> "active"]],
           dates)

JsonTask(id, dates) ==
    Spread([id |-> id, name |-> "T", description |-> "i",
            fhirTask |-> [resourceType |-> "Task", status |-> "draft", intent |-> "plan"]],
           dates)

JsonCarePlan(id, goals, tasks, dates) ==
    Spread([id |-> id, name |-> "P", description |-> "i",
            fhirCarePlan |-> [resourceType |-> "CarePlan", status |-> "draft", intent |-> "plan"],
            referencedGoals |-> goals, referencedTasks |-> tasks],
           dates)

\* Dates of an earlier export whose last update lies at the end of the clock's range.
FileDates == [createdAt |-> JIso(1), updatedAt |-> JIso(MaxTime)]

NoDates == <<>>

Payload(goals, tasks, carePlans) ==
    [parse |-> "ok",
     data |-> [goals |-> JArray(goals), tasks |-> JArray(tasks),
               carePlans |-> JArray(carePlans),
               exportDate |-> JIso(0), version |-> "1.0"]]

\* A well-formed export: two goals, one task and a care plan that names a
\* goal and the task.
FileOk ==
    Payload(<<JsonGoal(<<0, 0>>, "A", FileDates), JsonGoal(<<6>>, "B", FileDates)>>,
            <<JsonTask(<<7>>, FileDates)>>,
            <<JsonCarePlan(<<5>>, <<<<0, 0>>>>, <<<<7>>>>, FileDates)>>)

\* Two goals with one id.
FileDup ==
    Payload(<<JsonGoal(<<0, 0>>, "A", FileDates), JsonGoal(<<0, 0>>, "B", FileDates)>>,
            <<>>, <<>>)

\* A goal without createdAt and updatedAt.
FileNoDates == Payload(<<JsonGoal(<<8>>, "A", NoDates)>>, <<>>, <<>>)

FileEmpty == Payload(<<>>, <<>>, <<>>)

\* The tasks key is missing.
FileNoTasks ==
    [parse |-> "ok",
     data |-> [goals |-> JArray(<<JsonGoal(<<0, 0>>, "A", FileDates)>>),
               carePlans |-> JArray(<<>>),
               exportDate |-> JIso(0), version |-> "1.0"]]

\* Text that JSON.parse rejects.
FileMalformed == [parse |-> "error"]

\* The file dialog closed without a file.
NoFile == [parse |-> "none"]

\* The files the user can select.
Files == {FileOk, FileDup, FileNoDates, FileEmpty, FileNoTasks, FileMalformed}

\* Records as the forms save them: a goal with a description, and one whose
\* record carries an id of its own.
ValidGoal == Spread(createDefaultGoal, [description |-> [text |-> "walk"]])

GoalWithRecordId == Spread(ValidGoal, [id |-> <<4>>])

StoredTemplate(id, name, key, record) ==
    Spread([id |-> id, name |-> name, description |-> "d"] , Spread(key :> record, FileDates))

\* The goals and the task of the export of an earlier session. The third
\* goal has lost its lifecycleStatus, which no import checks.
SessionGoals ==
    <<StoredTemplate(<<0, 0>>, "A", "fhirGoal", ValidGoal),
      StoredTemplate(<<6>>, "B", "fhirGoal", GoalWithRecordId),
      StoredTemplate(<<8>>, "C", "fhirGoal", Without(ValidGoal, {"lifecycleStatus"}))>>

SessionTasks == <<StoredTemplate(<<7>>, "T", "fhirTask", createDefaultTask)>>

\* Its care plan names the first two goals and the task; the record is the
\* one the care plan form saved with them.
SessionCarePlan ==
    LET referencedGoals == <<<<0, 0>>, <<6>>>>
        referencedTasks == <<<<7>>>>
    IN  Spread(StoredTemplate(<<5>>, "P", "fhirCarePlan",
                   updateFhirCarePlan(createDefaultCarePlan,
                       goalReferences(referencedGoals, SessionGoals),
                       taskActivities(referencedTasks, SessionTasks))),
               [referencedGoals |-> referencedGoals, referencedTasks |-> referencedTasks])

FileSession == Payload(SessionGoals, SessionTasks, <<SessionCarePlan>>)

\* The export of that session after its first goal was deleted in the list:
\* the care plan still names the goal.
FileAfterDelete == Payload(Tail(SessionGoals), SessionTasks, <<SessionCarePlan>>)

\* The store after the import of a file.
StoreOf(file) ==
    LET data == importTemplates(file).value
    IN  templateReducer(initialState,
            [type |-> "LOAD_TEMPLATES",
             payload |-> [goals |-> data.goals, tasks |-> data.tasks,
                          carePlans |-> data.carePlans]])

\* Texts typed into the name and description fields.
NameInputs == {"", " ", "N "}

\* Values chosen for the required fields of the record in a form.
StatusInputs == {"", "active"}

ReferenceInputs == {"", "Patient/1"}

\* Texts passed to the import functions beyond the files above: the text
\* "null", a number, a payload whose goals are an object, and one whose
\* goals hold a null.
TextNull == [parse |-> "ok", data |-> JNull]

TextNumber == [parse |-> "ok", data |-> [kind |-> "number"]]

FileGoalsObject ==
    [parse |-> "ok",
     data |-> [goals |-> [kind |-> "object"], tasks |-> JArray(<<>>),
               carePlans |-> JArray(<<>>)]]

FileNullGoal == Payload(<<JNull>>, <<>>, <<>>)

\* The values of a key that are no array: the falsy ones, and true, a number
\* other than 0, a string with characters and an object.
NoArrayKinds == {"null", "false", "zero", "emptyString", "true", "number", "string", "object"}

\* An export without templates in which one of the three keys holds such a
\* value.
KeyTexts ==
    {[FileEmpty EXCEPT !.data = Spread(@, key :> [kind |-> kind])] :
        key \in {"goals", "tasks", "carePlans"}, kind \in NoArrayKinds}

Texts ==
    Files \cup {FileSession, TextNull, TextNumber, FileGoalsObject, FileNullGoal}
          \cup KeyTexts

\* The lists of ids a toggle is called on, lists that name an id twice
\* included (an import loads them as they are), and the ids toggled.
ToggleIds == {<<1>>, <<2>>, <<3>>}

ToggleLists == UNION {[1..n -> ToggleIds] : n \in 0..MaxRefs}

\* A property that is absent, or present with one of the values.
Optional(f, values) == {<<>>} \cup {f :> v : v \in values}

\* Records passed to the validators.
SubjectInputs == {[display |-> "x"], [reference |-> ""], [reference |-> "Patient/1"]}

GoalRecords ==
    {Spread(Spread(Spread([resourceType |-> "Goal"], l), d), sub) :
        l \in Optional("lifecycleStatus", {"", "draft"}),
        d \in Optional("description", {[coding |-> <<>>], [text |-> ""], [text |-> "walk"]}),
        sub \in Optional("subject", SubjectInputs)}

TaskRecords ==
    {Spread(Spread([resourceType |-> "Task"], st), i) :
        st \in Optional("status", {"", "draft"}),
        i \in Optional("intent", {"", "plan"})}

CarePlanRecords ==
    {Spread(Spread(Spread([resourceType |-> "CarePlan"], st), i), sub) :
        st \in Optional("status", {"", "draft"}),
        i \in Optional("intent", {"", "plan"}),
        sub \in Optional("subject", SubjectInputs)}

\* Records and targets passed to referencesResource.
TargetIds == {<<1>>, <<2>>}

References ==
    {createReference(t, id, <<>>) : t \in {"Goal", "Task"}, id \in TargetIds}
        \cup {[display |-> "x"]}

Activities ==
    {<<>>, [detail |-> [kind |-> "Appointment"]]}
        \cup {[reference |-> r] : r \in References}
        \cup {[detail |-> [goal |-> <<r>>]] : r \in References}

Resources ==
    {Spread(Spread([resourceType |-> t], g), a) :
        t \in {"CarePlan", "Goal", "Task"},
        g \in Optional("goal", {<<r>> : r \in References}
                                   \cup {<<[display |-> "x"], createReference("Goal", <<1>>, <<>>)>>}),
        a \in Optional("activity", {<<x>> : x \in Activities}
                                       \cup {<<<<>>, [reference |-> createReference("Task", <<2>>, <<>>)]>>})}

\* States and actions the reducer is called with on its own: the empty store
\* and the store of a session, with either value of loading and error; for
\* every type an add, an update and a delete of a template that is there and
\* of one that is not, the two SET actions, and a type the switch does not
\* know.
ReducerStates ==
    {[s EXCEPT !.loading = l, !.error = e] :
        s \in {initialState, StoreOf(FileSession)}, l \in BOOLEAN, e \in {"null", "boom"}}

ReducerPayloads(type) ==
    UNION {{Spread(t, [name |-> "Z"]), Spread(t, [id |-> NoSuchId])} :
                t \in Range(Collection(StoreOf(FileSession), type))}

ReducerActions(kind) ==
    CASE kind = "template" ->
            UNION {{[type |-> ActionName(verb, type), payload |-> t] :
                        verb \in {"ADD", "UPDATE"}, t \in ReducerPayloads(type)} :
                   type \in TemplateTypes}
      [] kind = "id" ->
            UNION {{[type |-> ActionName("DELETE", type), payload |-> t.id] :
                        t \in ReducerPayloads(type)} : type \in TemplateTypes}
      [] kind = "flag" -> {[type |-> "SET_LOADING", payload |-> l] : l \in BOOLEAN}
      [] kind = "message" -> {[type |-> "SET_ERROR", payload |-> e] : e \in {"null", "boom"}}
      [] OTHER -> {[type |-> "RESET", payload |-> JNull]}

----------------------------------------------------------------------------
(* The Dashboard *)

DashboardInit ==
    [viewMode |-> "list", createType |-> "goal", editState |-> JNull, viewState |-> JNull]

\* The state of the TemplateList the list view mounts. It is lost when the
\* Dashboard shows a form or the viewer, and starts anew with the next list.
TemplateListInit == [activeTab |-> "goal", searchQuery |-> ""]

\* The label of the create button of the list.
CreateButton(activeTab) ==
    CASE activeTab = "goal" -> "Create New Goal Template"
      [] activeTab = "task" -> "Create New Task Template"
      [] OTHER -> "Create New Care Plan Template"

\* What the grid of the list shows under the active tab: the message of an
\* empty list, or the cards of the templates. No input of the model types a
\* search, and filterTemplates returns the templates as they are while the
\* query is empty.
Grid(tab, s) ==
    LET shown == Collection(s, tab.activeTab)
        noun == CASE tab.activeTab = "goal" -> "goal"
                  [] tab.activeTab = "task" -> "task"
                  [] OTHER -> "care plan"
    IN  IF Len(shown) = 0
        THEN [empty |-> <<"No ", noun,
                          IF tab.searchQuery # "" THEN " templates match your search."
                                                  ELSE " templates created yet.">>]
        ELSE [cards |-> shown]

----------------------------------------------------------------------------
(* Actions *)

Init ==
    /\ state = initialState
    /\ now = 0
    /\ readers = <<>>
    /\ last = [op |-> "init", prev |-> initialState, dispatched |-> <<>>]
    /\ nOps = 0
    /\ dashboard = DashboardInit
    /\ form = NoForm
    /\ templateList = TemplateListInit

\* One user operation of the budget.
UserOp ==
    /\ nOps < MaxOps
    /\ nOps' = nOps + 1

\* Time passes between two events.
Tick ==
    /\ now < MaxTime
    /\ now' = now + 1
    /\ last' = [op |-> "tick", prev |-> state, dispatched |-> <<>>]
    /\ UNCHANGED <<state, readers, nOps, dashboard, form, templateList>>

\* addGoalTemplate, addTaskTemplate, addCarePlanTemplate: the clock is read by
\* generateId and by each new Date(), in this order. readBack is what a getX
\* of the same id returns when the caller reads right after the call.
addTemplate(type, template) ==
    \E suffix \in RandomSuffixes, c \in ClockAfter(now) : \E u \in ClockAfter(c) :
        LET newTemplate == NewTemplate(template, generateId(now, suffix), c, u)
            action == [type |-> ActionName("ADD", type), payload |-> newTemplate]
        IN  /\ UserOp
            /\ state' = templateReducer(state, action)
            /\ now' = u
            /\ last' = [op |-> "add", prev |-> state, type |-> type, template |-> template,
                        dispatched |-> <<action>>, dashboard |-> dashboard, form |-> form,
                        readBack |-> getInHandler(type, newTemplate.id)]
            /\ UNCHANGED readers

addGoalTemplate ==
    \E template \in GoalData :
        addTemplate("goal", template) /\ UNCHANGED <<dashboard, form, templateList>>

addTaskTemplate ==
    \E template \in TaskData :
        addTemplate("task", template) /\ UNCHANGED <<dashboard, form, templateList>>

addCarePlanTemplate ==
    \E template \in CarePlanData :
        addTemplate("careplan", template) /\ UNCHANGED <<dashboard, form, templateList>>

\* updateGoalTemplate, updateTaskTemplate, updateCarePlanTemplate
updateTemplate(type, template) ==
    LET updatedTemplate == UpdatedTemplate(template, now)
        action == [type |-> ActionName("UPDATE", type), payload |-> updatedTemplate]
    IN  /\ UserOp
        /\ state' = templateReducer(state, action)
        /\ last' = [op |-> "update", prev |-> state, type |-> type, template |-> template,
                    dispatched |-> <<action>>, dashboard |-> dashboard, form |-> form,
                    readBack |-> getInHandler(type, template.id)]
        /\ UNCHANGED <<now, readers>>

updateGoalTemplate ==
    \E template \in UpdatePayloads("goal") :
        updateTemplate("goal", template) /\ UNCHANGED <<dashboard, form, templateList>>

updateTaskTemplate ==
    \E template \in UpdatePayloads("task") :
        updateTemplate("task", template) /\ UNCHANGED <<dashboard, form, templateList>>

updateCarePlanTemplate ==
    \E template \in UpdatePayloads("careplan") :
        updateTemplate("careplan", template) /\ UNCHANGED <<dashboard, form, templateList>>

\* deleteGoalTemplate, deleteTaskTemplate, deleteCarePlanTemplate
deleteTemplate(type, id) ==
    LET action == [type |-> ActionName("DELETE", type), payload |-> id]
    IN  /\ UserOp
        /\ state' = templateReducer(state, action)
        /\ last' = [op |-> "delete", prev |-> state, type |-> type, id |-> id,
                    dispatched |-> <<action>>,
                    readBack |-> getInHandler(type, id)]
        /\ UNCHANGED <<now, readers>>

\* TemplateList.handleDelete on the card of a listed template: nothing happens
\* unless the user confirms. The list is on screen in the list view only.
handleDelete ==
    \E type \in TemplateTypes : \E id \in Ids(Collection(state, type)) :
        \E confirmed \in BOOLEAN :
            /\ dashboard.viewMode = "list"
            /\ IF confirmed
               THEN deleteTemplate(type, id)
               ELSE /\ UserOp
                    /\ last' = [op |-> "deleteDeclined", prev |-> state, type |-> type, id |-> id,
                                dispatched |-> <<>>]
                    /\ UNCHANGED <<state, now, readers>>
            /\ UNCHANGED <<dashboard, form, templateList>>

\* deleteX called with an id that no template of the collection has.
deleteMissing ==
    \E type \in TemplateTypes :
        deleteTemplate(type, NoSuchId) /\ UNCHANGED <<dashboard, form, templateList>>

\* TemplateList.handleExport
handleExport ==
    /\ dashboard.viewMode = "list"
    /\ UserOp
    /\ last' = [op |-> "export", prev |-> state,
                content |-> exportTemplates(state.goalTemplates, state.taskTemplates,
                                            state.carePlanTemplates, now),
                dispatched |-> <<>>]
    /\ UNCHANGED <<state, now, readers, dashboard, form, templateList>>

\* TemplateList.handleFileChange: a FileReader is started on the selected file.
handleFileChange ==
    \E file \in Files \cup {NoFile} :
        /\ dashboard.viewMode = "list"
        /\ UserOp
        /\ IF file.parse = "none"
           THEN readers' = readers                  \* if (!file) return
           ELSE /\ Len(readers) < MaxReaders
                /\ readers' = Append(readers,       \* reader.readAsText(file)
                                      [content |-> file, selected |-> state])
        /\ last' = [op |-> "fileChange", prev |-> state, dispatched |-> <<>>]
        /\ UNCHANGED <<state, now, dashboard, form, templateList>>

\* A plausible slip: a failed import is recorded in the store's error field.
readerOnloadRecordsError ==
    \E i \in 1..Len(readers) :
        LET content == readers[i].content
            selected == readers[i].selected
            importData == importTemplates(content)
            action == [type |-> "LOAD_TEMPLATES",
                       payload |-> [goals |-> importData.value.goals,
                                    tasks |-> importData.value.tasks,
                                    carePlans |-> importData.value.carePlans]]
        IN  /\ readers' = SubSeq(readers, 1, i - 1) \o SubSeq(readers, i + 1, Len(readers))
            /\ IF importData.ok
               THEN /\ state' = templateReducer(state, action)
                    /\ last' = [op |-> "import", prev |-> state, content |-> content, importData |-> importData,
                                alert |-> "Templates imported successfully!",
                                selected |-> selected, form |-> form,
                                dispatched |-> <<action>>]
               ELSE /\ state' = templateReducer(state, [type |-> "SET_ERROR",
                                                          payload |-> "Failed to import templates"])
                    /\ last' = [op |-> "import", prev |-> state, content |-> content, importData |-> importData,
                                alert |-> "Failed to import templates. Please check the file format.",
                                selected |-> selected, form |-> form,
                                dispatched |-> <<>>]
            /\ form' = IF form.type = "careplan" THEN Projected(form, state') ELSE form
            /\ UNCHANGED <<now, nOps, dashboard, templateList>>

\* reader.onload of a started FileReader, whenever the read has finished. A
\* care plan form that is open runs its projection effect on the new
\* collections.
readerOnload ==
    \E i \in 1..Len(readers) :
        LET content == readers[i].content
            selected == readers[i].selected
            importData == importTemplates(content)
            action == [type |-> "LOAD_TEMPLATES",
                       payload |-> [goals |-> importData.value.goals,
                                    tasks |-> importData.value.tasks,
                                    carePlans |-> importData.value.carePlans]]
        IN  /\ readers' = SubSeq(readers, 1, i - 1) \o SubSeq(readers, i + 1, Len(readers))
            /\ IF importData.ok
               THEN /\ state' = templateReducer(state, action)
                    /\ last' = [op |-> "import", prev |-> state, content |-> content, importData |-> importData,
                                alert |-> "Templates imported successfully!",
                                selected |-> selected, form |-> form,
                                dispatched |-> <<action>>]
               ELSE /\ state' = state
                    /\ last' = [op |-> "import", prev |-> state, content |-> content, importData |-> importData,
                                alert |-> "Failed to import templates. Please check the file format.",
                                selected |-> selected, form |-> form,
                                dispatched |-> <<>>]
            /\ form' = IF form.type = "careplan" THEN Projected(form, state') ELSE form
            /\ UNCHANGED <<now, nOps, dashboard, templateList>>

Next ==
    \/ handleFileChange
    \/ readerOnload
    \/ handleExport
    \/ handleDelete
    \/ deleteMissing
    \/ addGoalTemplate
    \/ addTaskTemplate
    \/ addCarePlanTemplate
    \/ updateGoalTemplate
    \/ updateTaskTemplate
    \/ updateCarePlanTemplate
    \/ Tick

Spec == Init /\ [][Next]_vars

----------------------------------------------------------------------------
(* The Dashboard and the forms: a session that starts from an empty store *)
(* or from the store an import has loaded, with no file being read or,    *)
(* over the store of the session, with a file the user has just selected: *)
(* its read ends at any later moment.                                     *)

\* The files whose read is pending when the behaviour starts.
PendingTexts == {FileEmpty, FileOk, FileNoDates, FileNullGoal} \cup KeyTexts

InitForm ==
    /\ \/ /\ state \in {initialState, StoreOf(FileSession), StoreOf(FileAfterDelete)}
          /\ readers = <<>>
       \/ /\ state = StoreOf(FileSession)
          /\ \E file \in PendingTexts :
                readers = <<[content |-> file, selected |-> state]>>
    /\ now = 0
    /\ last = [op |-> "init", prev |-> state, dispatched |-> <<>>]
    /\ nOps = 0
    /\ dashboard = DashboardInit
    /\ form = NoForm
    /\ templateList = TemplateListInit

\* A handler that changes the Dashboard or the form and leaves the store.
UiStep(op) ==
    /\ UserOp
    /\ last' = [op |-> op, prev |-> state, form |-> form, dispatched |-> <<>>]
    /\ UNCHANGED <<state, now, readers>>

\* setActiveTab, from the three tab buttons of the list. Looking at another
\* tab is no operation of the budget.
setActiveTab ==
    \E tab \in TemplateTypes :
        /\ dashboard.viewMode = "list"
        /\ templateList' = [templateList EXCEPT !.activeTab = tab]
        /\ last' = [op |-> "tab", prev |-> state, dispatched |-> <<>>]
        /\ UNCHANGED <<state, now, readers, nOps, dashboard, form>>

\* Dashboard.handleCreateTemplate, from the create button of the list
handleCreateTemplate ==
    \E type \in {templateList.activeTab} :              \* onCreateTemplate(activeTab)
        /\ dashboard.viewMode = "list"
        /\ dashboard' = [dashboard EXCEPT !.createType = type, !.viewMode = "create"]
        /\ form' = MountForm(type, NoTemplate, state)
        /\ templateList' = TemplateListInit
        /\ UiStep("create")

\* Dashboard.handleEditTemplate, from a card of the list or from the viewer
handleEditTemplate ==
    \E type \in TemplateTypes :
        \E template \in IF dashboard.viewMode = "view"
                         THEN {t \in {dashboard.viewState.template} :
                                    dashboard.viewState.type = type}
                         ELSE Range(Collection(state, type)) :
            /\ dashboard.viewMode \in {"list", "view"}
            /\ dashboard' = [dashboard EXCEPT
                                !.editState = [template |-> template, type |-> type],
                                !.viewMode = "edit"]
            /\ form' = MountForm(type, Given(template), state)
            /\ templateList' = TemplateListInit
            /\ UiStep("edit")

\* Dashboard.handleViewTemplate, from a card of the list
handleViewTemplate ==
    \E type \in TemplateTypes : \E template \in Range(Collection(state, type)) :
        /\ dashboard.viewMode = "list"
        /\ dashboard' = [dashboard EXCEPT
                            !.viewState = [template |-> template, type |-> type],
                            !.viewMode = "view"]
        /\ form' = NoForm
        /\ templateList' = TemplateListInit
        /\ UiStep("view")

\* Dashboard.handleCancel, from a form or from the viewer
handleCancel ==
    /\ dashboard.viewMode \in {"create", "edit", "view"}
    /\ dashboard' = [dashboard EXCEPT
                        !.viewMode = "list", !.editState = JNull, !.viewState = JNull]
    /\ form' = NoForm
    /\ templateList' = TemplateListInit
    /\ UiStep("cancel")

\* A change of the form's state by one of its inputs.
FormStep(op, newForm) ==
    /\ form' = newForm
    /\ UiStep(op)
    /\ UNCHANGED <<dashboard, templateList>>

\* The onChange handlers of the name and description inputs
setName ==
    \E value \in NameInputs :
        /\ form.type # "none"
        /\ FormStep("setName", [form EXCEPT !.name = value])

setDescription ==
    \E value \in NameInputs :
        /\ form.type # "none"
        /\ FormStep("setDescription", [form EXCEPT !.description = value])

\* handleFhirFieldChange(field, value) of the three forms, from the selects
\* of the required fields
handleFhirFieldChange ==
    \E field \in {"lifecycleStatus", "status", "intent"}, value \in StatusInputs :
        /\ form.type # "none"
        /\ field = "lifecycleStatus" <=> form.type = "goal"
        /\ FormStep("fieldChange",
                    [form EXCEPT ![FhirKey(form.type)] = Spread(@, field :> value)])

\* GoalTemplateForm.handleCodeableConceptChange('description', text): the
\* concept createCodeableConceptFromText(text) makes has no coding.
handleCodeableConceptChange ==
    \E text \in {"", "walk"} :
        /\ form.type = "goal"
        /\ FormStep("conceptChange",
                    [form EXCEPT !.fhirGoal = Spread(@, [description |-> [text |-> text]])])

\* GoalTemplateForm.handleSubjectChange(reference, subject.display || '') and
\* CarePlanTemplateForm.handleReferenceChange('subject', ...)
handleSubjectChange ==
    \E reference \in ReferenceInputs :
        /\ form.type \in {"goal", "careplan"}
        /\ LET record == form[FhirKey(form.type)]
               display == IF "subject" \in DOMAIN record /\ "display" \in DOMAIN record.subject
                          THEN record.subject.display ELSE ""
           IN  FormStep("subjectChange",
                        [form EXCEPT ![FhirKey(form.type)] =
                            Spread(@, [subject |-> [reference |-> reference,
                                                    display |-> display]])])

\* A plausible slip: a checkbox is shown for every goal the care plan names,
\* in the store or not.
handleGoalToggleAnyNamed ==
    \E goalId \in Ids(state.goalTemplates)
                    \cup (IF form.type = "careplan" THEN Range(form.referencedGoals) ELSE {}) :
        /\ form.type = "careplan"
        /\ FormStep("goalToggle",
                    Projected([form EXCEPT !.referencedGoals = Toggle(@, goalId)], state))

\* CarePlanTemplateForm.handleGoalToggle on the checkbox of a goal of the
\* store, and the projection effect that follows the change.
handleGoalToggle ==
    \E goalId \in Ids(state.goalTemplates) :
        /\ form.type = "careplan"
        /\ FormStep("goalToggle",
                    Projected([form EXCEPT !.referencedGoals = Toggle(@, goalId)], state))

handleTaskToggle ==
    \E taskId \in Ids(state.taskTemplates) :
        /\ form.type = "careplan"
        /\ FormStep("taskToggle",
                    Projected([form EXCEPT !.referencedTasks = Toggle(@, taskId)], state))

\* A plausible slip: the view is left as it is after the save.
handleSaveTemplateStays(templateData, type, isEdit) ==
    /\ IF isEdit /\ dashboard.editState # JNull
       THEN updateTemplate(type, Spread(dashboard.editState.template, templateData))
       ELSE addTemplate(type, templateData)
    /\ UNCHANGED <<dashboard, form, templateList>>

\* A plausible slip: the snapshot is spread over the form's data.
handleSaveTemplateSnapshotWins(templateData, type, isEdit) ==
    /\ IF isEdit /\ dashboard.editState # JNull
       THEN updateTemplate(type, Spread(templateData, dashboard.editState.template))
       ELSE addTemplate(type, templateData)
    /\ dashboard' = [dashboard EXCEPT !.viewMode = "list", !.editState = JNull]
    /\ form' = NoForm
    /\ templateList' = TemplateListInit

\* Dashboard.handleSaveTemplate(templateData, type, isEdit)
handleSaveTemplate(templateData, type, isEdit) ==
    /\ IF isEdit /\ dashboard.editState # JNull
       THEN updateTemplate(type, Spread(dashboard.editState.template, templateData))
       ELSE addTemplate(type, templateData)
    /\ dashboard' = [dashboard EXCEPT !.viewMode = "list", !.editState = JNull]
    /\ form' = NoForm
    /\ templateList' = TemplateListInit

\* handleSubmit of the mounted form: onSave is called if validate() finds
\* no error; otherwise the errors are shown.
handleSubmit ==
    /\ form.type # "none"
    /\ LET newErrors == validate(form)
       IN  IF DOMAIN newErrors = {}
           THEN handleSaveTemplate(SaveData(form), form.type, form.template.given)
           ELSE /\ UserOp
                /\ form' = [form EXCEPT !.errors = newErrors]
                /\ last' = [op |-> "submit", prev |-> state, form |-> form,
                            dispatched |-> <<>>]
                /\ UNCHANGED <<state, now, readers, dashboard, templateList>>

NextForm ==
    \/ readerOnload
    \/ setActiveTab
    \/ handleCreateTemplate
    \/ handleEditTemplate
    \/ handleViewTemplate
    \/ handleCancel
    \/ handleDelete
    \/ setName
    \/ setDescription
    \/ handleFhirFieldChange
    \/ handleCodeableConceptChange
    \/ handleSubjectChange
    \/ handleGoalToggle
    \/ handleTaskToggle
    \/ handleSubmit

SpecForm == InitForm /\ [][NextForm]_vars

----------------------------------------------------------------------------
(* The functions of FHIRUtils and the import functions, called on their own *)

\* A call that touches nothing: last records its argument and its result.
Call(op, arg, result) ==
    last' = [op |-> op, prev |-> state, arg |-> arg, result |-> result,
             dispatched |-> <<>>]

callValidateGoal ==
    \E goal \in GoalRecords :
        /\ Call("validateGoal", goal, validateGoal(goal))
        /\ UNCHANGED <<state, now, readers, nOps, dashboard, form, templateList>>

callValidateTask ==
    \E task \in TaskRecords :
        /\ Call("validateTask", task, validateTask(task))
        /\ UNCHANGED <<state, now, readers, nOps, dashboard, form, templateList>>

callValidateCarePlan ==
    \E carePlan \in CarePlanRecords :
        /\ Call("validateCarePlan", carePlan, validateCarePlan(carePlan))
        /\ UNCHANGED <<state, now, readers, nOps, dashboard, form, templateList>>

callReferencesResource ==
    \E resource \in Resources, targetType \in {"Goal", "Task"}, targetId \in TargetIds :
        /\ Call("referencesResource",
                [resource |-> resource, targetType |-> targetType, targetId |-> targetId],
                referencesResource(resource, targetType, targetId))
        /\ UNCHANGED <<state, now, readers, nOps, dashboard, form, templateList>>

callImportFromJSON ==
    \E jsonString \in Texts :
        /\ Call("importFromJSON", jsonString, importFromJSON(jsonString))
        /\ UNCHANGED <<state, now, readers, nOps, dashboard, form, templateList>>

callImportTemplates ==
    \E jsonString \in Texts :
        /\ Call("importTemplates", jsonString, importTemplates(jsonString))
        /\ UNCHANGED <<state, now, readers, nOps, dashboard, form, templateList>>

callTemplateReducer ==
    \E s \in ReducerStates, kind \in {"template", "id", "flag", "message", "unknown"} :
      \E action \in ReducerActions(kind) :
        /\ Call("templateReducer", [store |-> s, action |-> action],
                templateReducer(s, action))
        /\ UNCHANGED <<state, now, readers, nOps, dashboard, form, templateList>>

\* The updater of handleGoalToggle and handleTaskToggle, applied once and
\* applied again to its own result.
callToggle ==
    \E prev \in ToggleLists, id \in ToggleIds :
        /\ Call("toggle", [prev |-> prev, id |-> id],
                [once |-> Toggle(prev, id), twice |-> Toggle(Toggle(prev, id), id)])
        /\ UNCHANGED <<state, now, readers, nOps, dashboard, form, templateList>>

NextUtils ==
    \/ callTemplateReducer
    \/ callToggle
    \/ callValidateGoal
    \/ callValidateTask
    \/ callValidateCarePlan
    \/ callReferencesResource
    \/ callImportFromJSON
    \/ callImportTemplates

SpecUtils == Init /\ [][NextUtils]_vars

----------------------------------------------------------------------------
(* Properties *)

LastOf(templates) == templates[Len(templates)]

\* The collection an operation of the last step worked on, before and after.
Before == Collection(last.prev, last.type)

After == Collection(state, last.type)

UniqueIds(templates) ==
    \A i, j \in 1..Len(templates) : templates[i].id = templates[j].id => i = j

\* a is a later instant than b; no comparison with an Invalid Date is true.
Later(a, b) == a # NaN /\ b # NaN /\ a > b

\* C1: an add leaves the collection as it was with one template appended at
\* the end, which carries the caller's data and a non-empty id.
C1_AddAppends ==
    last.op = "add" =>
        /\ Len(After) = Len(Before) + 1
        /\ \A i \in 1..Len(Before) : After[i] = Before[i]
        /\ \A f \in DOMAIN last.template : LastOf(After)[f] = last.template[f]
        /\ LastOf(After).id # <<>>

C1_Witness ==
    /\ last.op = "add"
    /\ Len(Before) >= 1
    /\ LastOf(After).name = last.template.name

\* C2: every template produced by an add has createdAt equal to updatedAt,
\* whatever the clock does between the two reads.
C2_CreatedEqualsUpdated ==
    last.op = "add" => LastOf(After).createdAt = LastOf(After).updatedAt

\* C3 as stated: in every reachable state, load included, no two templates of
\* a collection have the same id.
C3_IdsUnique ==
    \A type \in TemplateTypes : UniqueIds(Collection(state, type))

\* The add of the last step generated an id the collection already held.
IdCollision(type) ==
    /\ last.op = "add"
    /\ last.type = type
    /\ last.dispatched[1].payload.id \in Ids(Collection(last.prev, type))

\* C3 as amended: a step that is not a load keeps the ids of a collection
\* distinct if they were, unless it is an add whose generated id collides.
C3_UniquePreserved ==
    \A type \in TemplateTypes :
        (/\ UniqueIds(Collection(last.prev, type))
         /\ last.op # "import"
         /\ ~IdCollision(type))
            => UniqueIds(Collection(state, type))

C3_Witness ==
    /\ last.op = "update"
    /\ Len(Before) >= 2
    /\ UniqueIds(Before)
    /\ last.template.id \in Ids(Before)

\* C4 as stated: after an update of a stored template, get returns the same
\* id, the createdAt the store held before, and a strictly later updatedAt.
C4_UpdateKeepsCreatedAtAndAdvances ==
    (last.op = "update" /\ last.template.id \in Ids(Before)) =>
        LET before == getTemplate(Before, last.template.id).value
            after == getTemplate(After, last.template.id)
        IN  /\ after.found
            /\ after.value.id = before.id
            /\ after.value.createdAt = before.createdAt
            /\ Later(after.value.updatedAt, before.updatedAt)

\* C4 as amended: after an update of a stored template, get returns the same
\* id, the createdAt of the payload, and the clock reading of the update as
\* updatedAt.
C4_UpdateStamps ==
    (last.op = "update" /\ last.template.id \in Ids(Before)) =>
        LET before == getTemplate(Before, last.template.id).value
            after == getTemplate(After, last.template.id)
        IN  /\ after.found
            /\ after.value.id = before.id
            /\ after.value.createdAt = last.template.createdAt
            /\ after.value.updatedAt = now

C4_Witness ==
    /\ last.op = "update"
    /\ last.template.id \in Ids(Before)
    /\ getTemplate(Before, last.template.id).value.createdAt # last.template.createdAt
    /\ getTemplate(Before, last.template.id).value.updatedAt > now

\* C5: an update replaces the element with the payload's id where it stands
\* and changes nothing else; with no such element nothing changes and no
\* error is recorded.
C5_UpdateInPlace ==
    last.op = "update" =>
        LET payload == last.dispatched[1].payload
        IN  /\ Len(After) = Len(Before)
            /\ \A i \in 1..Len(Before) :
                    After[i] = IF Before[i].id = payload.id THEN payload ELSE Before[i]
            /\ payload.id \notin Ids(Before) => After = Before
            /\ state.error = last.prev.error

C5_Witness ==
    /\ last.op = "update"
    /\ Len(Before) = 2
    /\ Before[1].id # last.template.id
    /\ Before[2].id = last.template.id
    /\ After[2] # Before[2]
    /\ After[1] = Before[1]

\* C6: after a delete, get of the id finds nothing and the other templates
\* stand in the order they had; a delete of an id no template has changes
\* nothing.
C6_DeleteRemoves ==
    last.op = "delete" =>
        LET kept == {i \in 1..Len(Before) : Before[i].id # last.id}
            rank(i) == Cardinality({j \in kept : j <= i})
        IN  /\ getTemplate(After, last.id) = NotFound
            /\ Len(After) = Cardinality(kept)
            /\ \A i \in kept : After[rank(i)] = Before[i]
            /\ last.id \notin Ids(Before) => After = Before

C6_Witness ==
    /\ last.op = "delete"
    /\ last.id \in Ids(Before)
    /\ Len(After) >= 1
    /\ getTemplate(After, last.id) = NotFound

\* C7: a delete of a goal or task removes it and leaves the care plans, with
\* their referencedGoals and referencedTasks, as they were.
C7_NoCascade ==
    (last.op = "delete" /\ last.type \in {"goal", "task"}) =>
        /\ last.id \notin Ids(After)
        /\ state.carePlanTemplates = last.prev.carePlanTemplates

\* A goal was deleted and a care plan still names it.
C7_Witness ==
    /\ last.op = "delete"
    /\ last.type = "goal"
    /\ last.id \in Ids(Before)
    /\ \E i \in 1..Len(state.carePlanTemplates) :
            last.id \in Range(state.carePlanTemplates[i].referencedGoals)

\* C8: a successful import leaves in the store exactly the three sequences
\* the import produced, whatever was there.
C8_LoadReplaces ==
    (last.op = "import" /\ last.importData.ok) =>
        /\ state.goalTemplates = last.importData.value.goals
        /\ state.taskTemplates = last.importData.value.tasks
        /\ state.carePlanTemplates = last.importData.value.carePlans
        /\ Len(last.dispatched) = 1
        /\ last.dispatched[1].type = "LOAD_TEMPLATES"

\* A load over a store that held a template which the file does not have.
C8_Witness ==
    /\ last.op = "import"
    /\ last.importData.ok
    /\ Len(last.prev.goalTemplates) >= 1
    /\ last.prev.goalTemplates[1] \notin Range(state.goalTemplates)
    /\ Len(state.goalTemplates) = 2
    /\ state.goalTemplates[1].id = state.goalTemplates[2].id

\* The text does not parse or lacks one of the three top-level keys.
LacksKey(content) ==
    \/ content.parse # "ok"
    \/ \E k \in {"goals", "tasks", "carePlans"} : k \notin DOMAIN content.data

\* C9: an import of a text that lacks a key fails, and a failed import
\* dispatches nothing and leaves the store as it was, both when the file is
\* selected and when its content arrives.
C9_FailedImportKeepsStore ==
    /\ last.op = "fileChange" => (state = last.prev /\ last.dispatched = <<>>)
    /\ last.op = "import" =>
            /\ LacksKey(last.content) => ~last.importData.ok
            /\ ~last.importData.ok => (state = last.prev /\ last.dispatched = <<>>)

C9_Witness ==
    /\ last.op = "import"
    /\ last.content = FileNoTasks
    /\ ~last.importData.ok
    /\ Len(state.goalTemplates) >= 1

\* C10: importing the export of the store's collections gives the store's
\* collections back, dates included.
C10_RoundTrip ==
    LET r == importTemplates(exportTemplates(state.goalTemplates, state.taskTemplates,
                                             state.carePlanTemplates, now))
    IN  /\ r.ok
        /\ r.value.goals = state.goalTemplates
        /\ r.value.tasks = state.taskTemplates
        /\ r.value.carePlans = state.carePlanTemplates

\* C11: importTemplates and importFromJSON end every call with a result or
\* with null, never with an exception, and importTemplates gives null for a
\* text that does not parse or lacks one of the three keys.
C11_ImportNeverRaises ==
    last.op \in {"importTemplates", "importFromJSON"} =>
        /\ "raised" \notin DOMAIN last.result
        /\ last.result = Null \/ last.result.ok
        /\ (last.op = "importTemplates" /\ LacksKey(last.arg)) => last.result = Null

\* The text "null" parses, and reading its goals throws inside the function.
C11_Witness ==
    /\ last.op = "importTemplates"
    /\ last.arg = TextNull
    /\ last.result = Null

\* The three keys of the parsed text hold arrays.
ThreeArrays(content) ==
    /\ content.parse = "ok"
    /\ \A k \in {"goals", "tasks", "carePlans"} :
            k \in DOMAIN content.data /\ content.data[k].kind = "array"

\* The stored template is the one of the file, its two dates rebuilt.
AsInFile(stored, item) ==
    /\ DOMAIN stored = DOMAIN item \cup {"createdAt", "updatedAt"}
    /\ \A f \in DOMAIN item \ {"createdAt", "updatedAt"} : stored[f] = item[f]
    /\ \A f \in {"createdAt", "updatedAt"} :
            /\ stored[f] \in Times \cup {NaN}
            /\ (f \in DOMAIN item /\ item[f].kind = "isostring") => stored[f] = item[f].t

AllAsInFile(templates, items) ==
    /\ Len(templates) = Len(items)
    /\ \A i \in 1..Len(items) : AsInFile(templates[i], items[i])

\* C12: an import of a text whose three keys hold arrays succeeds whatever
\* its records are, and the store then holds each template of the file
\* unchanged apart from createdAt and updatedAt, which are dates.
C12_ImportUnvalidated ==
    (last.op = "import" /\ ThreeArrays(last.content)) =>
        /\ last.importData.ok
        /\ AllAsInFile(state.goalTemplates, last.content.data.goals.items)
        /\ AllAsInFile(state.taskTemplates, last.content.data.tasks.items)
        /\ AllAsInFile(state.carePlanTemplates, last.content.data.carePlans.items)

\* The store holds an imported goal that validateGoal rejects.
C12_Witness ==
    /\ last.op = "import"
    /\ last.importData.ok
    /\ \E i \in 1..Len(state.goalTemplates) :
            /\ ~validateGoal(state.goalTemplates[i].fhirGoal).isValid
            /\ state.goalTemplates[i].name = last.content.data.goals.items[i].name

\* The entry the claim describes for the id i and the resource type, given the
\* templates of the collection and the key of their record.
EntryAsDescribed(entry, resourceType, i, templates, key) ==
    LET found == i \in Ids(templates)
        t == getTemplate(templates, i).value
        r == IF found /\ "id" \in DOMAIN t[key] /\ t[key].id # <<>> THEN t[key].id ELSE i
    IN  /\ entry.reference = <<resourceType, "/">> \o r
        /\ entry.type = resourceType
        /\ found => ("display" \in DOMAIN entry /\ entry.display = t.name)
        /\ ~found => "display" \notin DOMAIN entry

\* The list under key f of a record, empty when the key is absent.
ListOf(record, f) == IF f \in DOMAIN record THEN record[f] ELSE <<>>

\* C13: in the care plan form the record's goal list has one entry per id of
\* referencedGoals, in order, made of the found template's record id (or the
\* id itself) and name, and the activity list is made the same way from
\* referencedTasks, each entry wrapped as {reference: ...}.
C13_Projection ==
    form.type = "careplan" =>
        LET goal == ListOf(form.fhirCarePlan, "goal")
            activity == ListOf(form.fhirCarePlan, "activity")
        IN  /\ Len(goal) = Len(form.referencedGoals)
            /\ \A k \in 1..Len(goal) :
                    EntryAsDescribed(goal[k], "Goal", form.referencedGoals[k],
                                     state.goalTemplates, "fhirGoal")
            /\ Len(activity) = Len(form.referencedTasks)
            /\ \A k \in 1..Len(activity) :
                    /\ DOMAIN activity[k] = {"reference"}
                    /\ EntryAsDescribed(activity[k].reference, "Task", form.referencedTasks[k],
                                        state.taskTemplates, "fhirTask")

\* A form whose care plan names a goal that is gone and a goal whose record
\* has an id of its own.
C13_Witness ==
    /\ form.type = "careplan"
    /\ Len(form.referencedGoals) = 2
    /\ form.referencedGoals[1] \notin Ids(state.goalTemplates)
    /\ form.referencedGoals[2] \in Ids(state.goalTemplates)
    /\ form.fhirCarePlan.goal[2].reference # <<"Goal", "/">> \o form.referencedGoals[2]
    /\ Len(form.referencedTasks) = 1

\* C14: every care plan of the store has the goal and activity lists that the
\* projection of its referencedGoals and referencedTasks gives against the
\* goals and tasks now in the store.
C14_StoredProjection ==
    \A i \in 1..Len(state.carePlanTemplates) :
        LET carePlan == state.carePlanTemplates[i]
        IN  carePlan.fhirCarePlan =
                updateFhirCarePlan(carePlan.fhirCarePlan,
                    goalReferences(carePlan.referencedGoals, state.goalTemplates),
                    taskActivities(carePlan.referencedTasks, state.taskTemplates))

\* The entries of a care plan for the goal the last step deleted, as the
\* projection gives them before and after the delete.
DeletedGoalEntries ==
    UNION {LET referencedGoals == state.carePlanTemplates[i].referencedGoals
           IN  {[before |-> goalReferences(referencedGoals, last.prev.goalTemplates)[k],
                 after |-> goalReferences(referencedGoals, state.goalTemplates)[k]] :
                    k \in {j \in 1..Len(referencedGoals) : referencedGoals[j] = last.id}} :
           i \in 1..Len(state.carePlanTemplates)}

GoalDeleted ==
    /\ last.op = "delete"
    /\ last.type = "goal"
    /\ last.id \in Ids(last.prev.goalTemplates)

\* C15 as stated: when a goal that a care plan names is removed, the projected
\* entry loses its display and keeps the reference it had, "Goal/g".
C15_ReferenceStays ==
    GoalDeleted =>
        \A e \in DeletedGoalEntries :
            /\ "display" \notin DOMAIN e.after
            /\ e.after.reference = e.before.reference
            /\ e.after.reference = <<"Goal", "/">> \o last.id

\* C15 as amended: the entry loses its display and its reference becomes
\* "Goal/g"; that is the reference it had exactly when the removed goal's
\* record had no id of its own other than g.
C15_ReferenceFallsBack ==
    GoalDeleted =>
        \A e \in DeletedGoalEntries :
            LET record == getTemplate(last.prev.goalTemplates, last.id).value.fhirGoal
                ownId == "id" \in DOMAIN record /\ record.id # <<>> /\ record.id # last.id
            IN  /\ "display" \notin DOMAIN e.after
                /\ e.after.reference = <<"Goal", "/">> \o last.id
                /\ (e.after.reference = e.before.reference) <=> ~ownId

\* A goal whose record has its own id is deleted while a care plan names it.
C15_Witness ==
    /\ GoalDeleted
    /\ \E e \in DeletedGoalEntries :
            /\ "display" \in DOMAIN e.before
            /\ e.before.reference # e.after.reference

\* C16: the record in the care plan form has a goal list exactly when
\* referencedGoals is not empty and an activity list exactly when
\* referencedTasks is not empty, and a list it has is not empty.
C16_EmptyOmitted ==
    form.type = "careplan" =>
        /\ "goal" \in DOMAIN form.fhirCarePlan <=> form.referencedGoals # <<>>
        /\ "activity" \in DOMAIN form.fhirCarePlan <=> form.referencedTasks # <<>>
        /\ Len(ListOf(form.fhirCarePlan, "goal")) = Len(form.referencedGoals)
        /\ Len(ListOf(form.fhirCarePlan, "activity")) = Len(form.referencedTasks)

\* The last task of a care plan was unticked: the activity list is gone and
\* the goal list is there.
C16_Witness ==
    /\ last.op = "taskToggle"
    /\ form.referencedTasks = <<>>
    /\ "activity" \in DOMAIN last.form.fhirCarePlan
    /\ "activity" \notin DOMAIN form.fhirCarePlan
    /\ "goal" \in DOMAIN form.fhirCarePlan

\* The property is absent or holds the empty string.
Unset(record, f) == f \notin DOMAIN record \/ record[f] = ""

\* The messages of the rules the record violates, in the order of the rules.
Violations(rules) ==
    LET violated(rule) == rule.violated
    IN  [k \in 1..Len(SelectSeq(rules, violated)) |-> SelectSeq(rules, violated)[k].message]

SubjectUnset(record) ==
    "subject" \notin DOMAIN record \/ Unset(record.subject, "reference")

\* C17: each validator reports every required field that is absent or empty,
\* in the order of its rules, and isValid holds exactly when it reports none.
C17_Validators ==
    /\ last.op \in {"validateGoal", "validateTask", "validateCarePlan"} =>
            last.result.isValid = (last.result.errors = <<>>)
    /\ last.op = "validateGoal" =>
            last.result.errors = Violations(
                <<[violated |-> Unset(last.arg, "lifecycleStatus"),
                   message |-> "Lifecycle status is required"],
                  [violated |-> "description" \notin DOMAIN last.arg
                                    \/ Unset(last.arg.description, "text"),
                   message |-> "Description is required"],
                  [violated |-> SubjectUnset(last.arg),
                   message |-> "Subject reference is required"]>>)
    /\ last.op = "validateTask" =>
            last.result.errors = Violations(
                <<[violated |-> Unset(last.arg, "status"), message |-> "Status is required"],
                  [violated |-> Unset(last.arg, "intent"), message |-> "Intent is required"]>>)
    /\ last.op = "validateCarePlan" =>
            last.result.errors = Violations(
                <<[violated |-> Unset(last.arg, "status"), message |-> "Status is required"],
                  [violated |-> Unset(last.arg, "intent"), message |-> "Intent is required"],
                  [violated |-> SubjectUnset(last.arg),
                   message |-> "Subject reference is required"]>>)

\* A goal with no lifecycleStatus, an empty description text and no subject
\* reference yields the three messages.
C17_Witness ==
    /\ last.op = "validateGoal"
    /\ "lifecycleStatus" \notin DOMAIN last.arg
    /\ "description" \in DOMAIN last.arg
    /\ "text" \in DOMAIN last.arg.description
    /\ "subject" \in DOMAIN last.arg
    /\ ~last.result.isValid
    /\ last.result.errors = <<"Lifecycle status is required", "Description is required",
                              "Subject reference is required">>

\* The name, the description and the record of saved data pass the checks.
Acceptable(type, data) ==
    /\ data.name \notin {"", " "}
    /\ data.description \notin {"", " "}
    /\ validateRecord(type, data[FhirKey(type)]).isValid

\* C18: a submit of a form whose name or description is blank or whose record
\* fails its validator dispatches nothing, leaves the store and keeps the form
\* open; what a form saves has passed the three checks.
C18_InvalidNeverSaved ==
    /\ last.op = "submit" =>
            /\ ~Acceptable(last.form.type, SaveData(last.form))
            /\ state = last.prev
            /\ last.dispatched = <<>>
            /\ form.type = last.form.type
            /\ dashboard.viewMode \in {"create", "edit"}
    /\ last.op \in {"add", "update"} => Acceptable(last.type, last.template)

\* A named form with an invalid record was submitted and is still open.
C18_Witness ==
    /\ last.op = "submit"
    /\ last.form.name = "C"
    /\ ~validateGoal(last.form.fhirGoal).isValid
    /\ form.type = "goal"
    /\ "fhir" \in DOMAIN form.errors

\* The reference strings of a care plan record: those of its goal list, of
\* its activities and of the goals of its activities' details.
ReferenceStrings(resource) ==
    LET goal == ListOf(resource, "goal")
        activity == ListOf(resource, "activity")
        strings(list) == {list[i].reference :
                            i \in {j \in 1..Len(list) : "reference" \in DOMAIN list[j]}}
    IN  strings(goal)
            \cup {activity[i].reference.reference :
                    i \in {j \in 1..Len(activity) :
                                /\ "reference" \in DOMAIN activity[j]
                                /\ "reference" \in DOMAIN activity[j].reference}}
            \cup UNION {strings(ListOf(activity[i].detail, "goal")) :
                    i \in {j \in 1..Len(activity) : "detail" \in DOMAIN activity[j]}}

\* C19: referencesResource is true exactly when the record is a CarePlan and
\* targetType/targetId is one of its reference strings.
C19_ReferencesResource ==
    last.op = "referencesResource" =>
        last.result =
            (/\ last.arg.resource.resourceType = "CarePlan"
             /\ (<<last.arg.targetType, "/">> \o last.arg.targetId)
                    \in ReferenceStrings(last.arg.resource))

\* The target is found among the goals of an activity's detail only.
C19_Witness ==
    /\ last.op = "referencesResource"
    /\ last.result
    /\ "goal" \notin DOMAIN last.arg.resource
    /\ "detail" \in DOMAIN last.arg.resource.activity[1]

\* The id a mutation of the last step was about.
MutatedId ==
    CASE last.op = "add" -> last.dispatched[1].payload.id
      [] last.op = "update" -> last.template.id
      [] last.op = "delete" -> last.id

Mutations == {"add", "update", "delete"}

\* C21: nothing is processed between the selection of an import file and its
\* bulk load: while a read is pending no mutation of the store takes place, and
\* the collections a load replaces are the ones the store held when the file
\* was selected, so that no add, update or delete is lost to the import.
C21_ImportAtomic ==
    /\ readers # <<>> => last.op \notin Mutations
    /\ last.op = "import" => last.prev = last.selected

\* C22: before any operation the three collections are empty, loading is
\* false and error is null, and the Dashboard shows the list with the goal
\* tab active: the message of the empty goal list and the button that creates
\* a goal template.
C22_InitialState ==
    last.op = "init" =>
        /\ state.goalTemplates = <<>>
        /\ state.taskTemplates = <<>>
        /\ state.carePlanTemplates = <<>>
        /\ state.loading = FALSE
        /\ state.error = "null"
        /\ dashboard.viewMode = "list"
        /\ templateList.activeTab = "goal"
        /\ Grid(templateList, state) = [empty |-> <<"No ", "goal", " templates created yet.">>]
        /\ CreateButton(templateList.activeTab) = "Create New Goal Template"

C22_Witness ==
    /\ last.op = "init"
    /\ nOps = 0
    /\ readers = <<>>
    /\ "empty" \in DOMAIN Grid(templateList, state)

\* C30: in every state reached through adds, updates, deletes and file
\* imports, loading is false and error is null; a failed import dispatches
\* nothing and leaves the store as it was: the user gets the alert.
C30_NeverLoadingNoError ==
    /\ state.loading = FALSE
    /\ state.error = "null"
    /\ (last.op = "import" /\ ~last.importData.ok) =>
            /\ last.dispatched = <<>>
            /\ state = last.prev
            /\ last.alert = "Failed to import templates. Please check the file format."

C30_Witness ==
    /\ last.op = "import"
    /\ ~last.importData.ok
    /\ Len(last.prev.goalTemplates) > 0
    /\ state.error = "null"

\* The other fields of the store are the same in a and b.
SameBut(a, b, fields) ==
    \A f \in DOMAIN a \ fields : a[f] = b[f]

CollectionField(type) ==
    CASE type = "goal" -> "goalTemplates"
      [] type = "task" -> "taskTemplates"
      [] OTHER -> "carePlanTemplates"

\* C23: an add, update or delete of one type leaves the two other
\* collections, loading and error as they were; SET_LOADING and SET_ERROR
\* change their own field only; an action of an unknown type returns the
\* state unchanged.
C23_ReducerFrame ==
    last.op = "templateReducer" =>
        LET s == last.arg.store
            action == last.arg.action
            result == last.result
        IN  /\ DOMAIN result = DOMAIN s
            /\ \A type \in TemplateTypes :
                    action.type \in {ActionName(verb, type) : verb \in {"ADD", "UPDATE", "DELETE"}}
                        => SameBut(s, result, {CollectionField(type)})
            /\ action.type = "SET_LOADING" =>
                    SameBut(s, result, {"loading"}) /\ result.loading = action.payload
            /\ action.type = "SET_ERROR" =>
                    SameBut(s, result, {"error"}) /\ result.error = action.payload
            /\ action.type = "RESET" => result = s

C23_Witness ==
    /\ last.op = "templateReducer"
    /\ last.arg.action.type = "DELETE_GOAL_TEMPLATE"
    /\ last.arg.store.loading
    /\ Len(last.result.goalTemplates) < Len(last.arg.store.goalTemplates)
    /\ Len(last.result.carePlanTemplates) = 1

NoDuplicates(ids) ==
    \A i, j \in 1..Len(ids) : ids[i] = ids[j] => i = j

\* The place of x in a list that names it once.
Place(ids, x) == CHOOSE k \in 1..Len(ids) : ids[k] = x

\* b names its ids in the order a names them.
SameOrder(a, b) ==
    \A i, j \in 1..Len(b) : i < j => Place(a, b[i]) < Place(a, b[j])

\* C27: on a list without duplicates a toggle leaves a list without
\* duplicates; an id that is absent is appended at the end, an id that is
\* present is removed and the others keep their order; two toggles of the
\* same id restore the same set of ids, with the id moved to the end if it
\* was present.
C27_ToggleAlgebra ==
    (last.op = "toggle" /\ NoDuplicates(last.arg.prev)) =>
        LET prev == last.arg.prev
            id == last.arg.id
            once == last.result.once
            twice == last.result.twice
        IN  /\ NoDuplicates(once)
            /\ id \notin Range(prev) =>
                    /\ once = prev \o <<id>>
                    /\ twice = prev
            /\ id \in Range(prev) =>
                    /\ Range(once) = Range(prev) \ {id}
                    /\ Len(once) = Len(prev) - 1
                    /\ SameOrder(prev, once)
                    /\ twice = once \o <<id>>
            /\ Range(twice) = Range(prev)
            /\ NoDuplicates(twice)

C27_Witness ==
    /\ last.op = "toggle"
    /\ NoDuplicates(last.arg.prev)
    /\ Len(last.arg.prev) = 3
    /\ last.arg.prev[1] = last.arg.id
    /\ last.result.twice # last.arg.prev
    /\ last.result.twice[3] = last.arg.id

\* The last step was a save of the mounted form.
Saved == last.op \in {"add", "update"}

\* C24: in every state of the Dashboard reached by create, edit, view, save
\* and cancel, the edit view has an editState and the viewer a viewState;
\* after every save and every cancel the list is shown and editState is null.
C24_DashboardStates ==
    /\ dashboard.viewMode = "edit" => dashboard.editState # JNull
    /\ dashboard.viewMode = "view" => dashboard.viewState # JNull
    /\ (Saved \/ last.op = "cancel") =>
            /\ dashboard.viewMode = "list"
            /\ dashboard.editState = JNull

C24_Witness ==
    /\ last.op = "update"
    /\ last.dashboard.viewMode = "edit"
    /\ last.dashboard.editState # JNull
    /\ dashboard.viewMode = "list"
    /\ dashboard.editState = JNull

SavedOverImport ==
    /\ last.op = "update"
    /\ last.template.id \notin Ids(Before)

\* C26: if an import completes while a template is being edited and the
\* loaded collections do not hold the edited id, the save of the edit leaves
\* the store as the import loaded it: no template with that id appears, no
\* error is recorded, and the list is shown again.
C26_SaveAfterImport ==
    SavedOverImport =>
        /\ state = last.prev
        /\ \A type \in TemplateTypes : last.template.id \notin Ids(Collection(state, type))
        /\ state.error = "null"
        /\ dashboard.viewMode = "list"
        /\ dashboard.editState = JNull

C26_Witness ==
    /\ SavedOverImport
    /\ last.dashboard.viewMode = "edit"
    /\ last.dashboard.editState.template.id = last.template.id
    /\ Len(Before) > 0
    /\ state = last.prev

\* The steps the inputs and the submit button of a form take.
FormOps ==
    {"setName", "setDescription", "fieldChange", "conceptChange", "subjectChange",
     "goalToggle", "taskToggle", "submit"}

\* The ids of a list that no template of the collection has.
Dangling(ids, templates) == {id \in Range(ids) : id \notin Ids(templates)}

\* The id is in the list and the list of entries has, at its place, an entry
\* that refers to it.
KeptGoal(id, ids, record) ==
    \E k \in 1..Len(ids) :
        /\ ids[k] = id
        /\ k <= Len(ListOf(record, "goal"))
        /\ record.goal[k].reference = <<"Goal", "/">> \o id

KeptTask(id, ids, record) ==
    \E k \in 1..Len(ids) :
        /\ ids[k] = id
        /\ k <= Len(ListOf(record, "activity"))
        /\ record.activity[k].reference.reference = <<"Task", "/">> \o id

\* A care plan or a care plan form keeps every id of the two sets.
KeepsAll(goalIds, taskIds, plan) ==
    /\ \A id \in goalIds : KeptGoal(id, plan.referencedGoals, plan.fhirCarePlan)
    /\ \A id \in taskIds : KeptTask(id, plan.referencedTasks, plan.fhirCarePlan)

\* C28: once a goal or task a care plan names is deleted, no action of the
\* care plan form removes the dangling id: the form opened on the care plan
\* names it, every input and toggle of the form keeps it, and the care plan
\* a save stores names it, each time with an entry for it in the projected
\* record.
C28_DanglingStays ==
    /\ (last.op = "edit" /\ form.type = "careplan") =>
            KeepsAll(Dangling(dashboard.editState.template.referencedGoals, state.goalTemplates),
                     Dangling(dashboard.editState.template.referencedTasks, state.taskTemplates),
                     form)
    /\ (last.op \in FormOps /\ form.type = "careplan") =>
            KeepsAll(Dangling(last.form.referencedGoals, state.goalTemplates),
                     Dangling(last.form.referencedTasks, state.taskTemplates),
                     form)
    /\ (last.op = "update" /\ last.type = "careplan") =>
            \A i \in 1..Len(state.carePlanTemplates) :
                state.carePlanTemplates[i].id = last.template.id =>
                    KeepsAll(Dangling(last.form.referencedGoals, state.goalTemplates),
                             Dangling(last.form.referencedTasks, state.taskTemplates),
                             state.carePlanTemplates[i])

\* A care plan that names a deleted goal is edited and saved.
C28_Witness ==
    /\ last.op = "update"
    /\ last.type = "careplan"
    /\ Dangling(last.dashboard.editState.template.referencedGoals, state.goalTemplates) # {}
    /\ \E i \in 1..Len(state.carePlanTemplates) :
            /\ state.carePlanTemplates[i].id = last.template.id
            /\ Dangling(state.carePlanTemplates[i].referencedGoals, state.goalTemplates) # {}

ImportKeys == {"goals", "tasks", "carePlans"}

\* The text parses to an object that has the three keys.
HasThreeKeys(content) ==
    /\ content.parse = "ok"
    /\ ImportKeys \subseteq DOMAIN content.data

\* One of the three keys is falsy or holds a value that is no sequence.
SomeKeyNoSequence(content) ==
    \E k \in ImportKeys :
        \/ content.data[k].kind \in {"null", "false", "zero", "emptyString"}
        \/ content.data[k].kind # "array"

AllEmptySequences(content) ==
    \A k \in ImportKeys : content.data[k].kind = "array" /\ content.data[k].items = <<>>

\* One of the three sequences holds a null.
SomeNullElement(content) ==
    \E k \in ImportKeys :
        /\ content.data[k].kind = "array"
        /\ \E i \in 1..Len(content.data[k].items) : content.data[k].items[i] = JNull

\* What C29 says of a payload whose keys are falsy or no sequences, and of
\* three empty sequences.
RejectsNoSequence ==
    (last.op = "import" /\ HasThreeKeys(last.content)) =>
        /\ SomeKeyNoSequence(last.content) =>
                /\ ~last.importData.ok
                /\ state = last.prev
        /\ AllEmptySequences(last.content) =>
                /\ last.importData.ok
                /\ state.goalTemplates = <<>>
                /\ state.taskTemplates = <<>>
                /\ state.carePlanTemplates = <<>>

====
